---- MODULE Spec2Model ----
(***************************************************************************)
(* A model of preprocessing/filtering.py: the combined quality filter      *)
(* (combined_filter_map), the corpus filter stage                          *)
(* (filter_dataset_with_stats), the persistence guard (stream_to_disk) and *)
(* the main block that runs them in order.                                 *)
(*                                                                         *)
(* Numbers: every measured quantity and threshold is only ever compared,   *)
(* so floats are modelled by integers on a common scale.  A Python dict is *)
(* a function from strings; {**a, **b} is b @@ a.  An optional value       *)
(* (None or a number) is a sequence of length 0 or 1.                      *)
(*                                                                         *)
(* Two specifications:                                                     *)
(*   SpecEval  one call of combined_filter_map, gate by gate, on every     *)
(*             record and config within the bounds;                        *)
(*   Spec      one run of the main block on a small corpus, with the map   *)
(*             step evaluated by concurrent workers.                       *)
(***************************************************************************)
EXTENDS Integers, Sequences, FiniteSets, TLC

\* ------------------------------------------------------------------ bounds
MaxLine == 1       \* line lengths and their thresholds range over 0..MaxLine
MaxFrac == 1       \* alphanum fraction and its threshold, 0..MaxFrac
MaxStars == 1      \* star counts and their threshold, 0..MaxStars
MaxRatio == 1      \* comment ratios 0..MaxRatio, thresholds -1..MaxRatio+1
MaxCorpus == 3     \* records in the corpus of a run
MaxWorkers == 2    \* args.num_workers

\* ------------------------------------------------------------- data model
None == <<>>
Some(v) == <<v>>

\* A content is abstracted to its length and to what the comment-density
\* computation makes of it: Some(ratio), or None when it cannot be scored
\* (the empty text, whose ratio of comments to text is undefined).
EmptyContent == [length |-> 0, nl |-> None]
Contents == {EmptyContent} \cup [length : {1}, nl : {Some(r) : r \in 0..MaxRatio}]

\* The fields combined_filter_map reads.  max_stars_count may be missing
\* from the record, None, or a number.  A file's mean line length never
\* exceeds its longest line.
ExamplesWithStars ==
    { e \in [max_line_length : 0..MaxLine, avg_line_length : 0..MaxLine,
             alphanum_fraction : 0..MaxFrac,
             max_stars_count : {None} \cup {Some(s) : s \in 0..MaxStars},
             content : Contents] :
        e.avg_line_length <= e.max_line_length }
ExamplesWithoutStars ==
    { e \in [max_line_length : 0..MaxLine, avg_line_length : 0..MaxLine,
             alphanum_fraction : 0..MaxFrac, content : Contents] :
        e.avg_line_length <= e.max_line_length }
Examples == ExamplesWithStars \cup ExamplesWithoutStars

\* FilteringArguments, the fields the filter reads.
ArgSpace(workers) ==
    [line_max : 0..MaxLine, line_mean : 0..MaxLine, alpha_frac : 0..MaxFrac,
     threshold_stars : 0..MaxStars,
     min_threshold_comments : (-1)..(MaxRatio + 1),
     max_threshold_comments : (-1)..(MaxRatio + 1),
     num_workers : workers]
Configs == ArgSpace({1})

NoStats == [k \in {} |-> 0]

\* stats[key] = value
Put(stats, key, value) == (key :> value) @@ stats

BasicTags == {"basic_rejected_max_line", "basic_rejected_avg_line", "basic_rejected_alphanum"}
RejectTags == BasicTags \cup {"stars_rejected", "comments_rejected"}

\* utils.text_extraction.get_nl_ratio: total, never raises; content it
\* cannot score gets the degenerate ratio 0.  The language tag, lower-cased
\* at the call, selects the comment syntax inside the function: a content
\* here stands for a text together with its language.
get_nl_ratio(content) == IF content.nl = None THEN 0 ELSE content.nl[1]

\* ------------------------------------------------- combined_filter_map
\* The local state of one call is [is_valid, stats].

\* variant: three independent ifs instead of if/elif/elif
BasicGateUnchained(example, args, st) ==
    LET a == IF example.max_line_length > args.line_max
             THEN [is_valid |-> FALSE, stats |-> Put(st.stats, "basic_rejected_max_line", 1)]
             ELSE st
        b == IF example.avg_line_length > args.line_mean
             THEN [is_valid |-> FALSE, stats |-> Put(a.stats, "basic_rejected_avg_line", 1)]
             ELSE a
    IN  IF example.alphanum_fraction < args.alpha_frac
        THEN [is_valid |-> FALSE, stats |-> Put(b.stats, "basic_rejected_alphanum", 1)]
        ELSE b

BasicGate(example, args, st) ==
    IF example.max_line_length > args.line_max
    THEN [is_valid |-> FALSE, stats |-> Put(st.stats, "basic_rejected_max_line", 1)]
    ELSE IF example.avg_line_length > args.line_mean
    THEN [is_valid |-> FALSE, stats |-> Put(st.stats, "basic_rejected_avg_line", 1)]
    ELSE IF example.alphanum_fraction < args.alpha_frac
    THEN [is_valid |-> FALSE, stats |-> Put(st.stats, "basic_rejected_alphanum", 1)]
    ELSE st

\* example.get("max_stars_count", 0), then None -> 0
NormalizedStars(example) ==
    LET got == IF "max_stars_count" \in DOMAIN example
               THEN example["max_stars_count"] ELSE Some(0)
    IN  IF got = None THEN 0 ELSE got[1]

\* variant: the boundary value passes
StarsRejectsStrict(stars, args) == stars < args.threshold_stars

StarsRejects(stars, args) == stars <= args.threshold_stars

\* variant: a passing stars gate sets is_valid back to True
StarsGateResetting(example, args, st) ==
    LET stars == NormalizedStars(example)
        s1 == Put(st.stats, "stars", stars)
    IN  IF StarsRejects(stars, args)
        THEN [is_valid |-> FALSE, stats |-> Put(s1, "stars_rejected", 1)]
        ELSE [is_valid |-> TRUE, stats |-> s1]

StarsGate(example, args, st) ==
    LET stars == NormalizedStars(example)
        s1 == Put(st.stats, "stars", stars)
    IN  IF StarsRejects(stars, args)
        THEN [is_valid |-> FALSE, stats |-> Put(s1, "stars_rejected", 1)]
        ELSE [is_valid |-> st.is_valid, stats |-> s1]

\* variant: the boundary values pass
CommentsRejectsStrict(nl_ratio, args) ==
    nl_ratio < args.min_threshold_comments \/ nl_ratio > args.max_threshold_comments

CommentsRejects(nl_ratio, args) ==
    nl_ratio <= args.min_threshold_comments \/ nl_ratio >= args.max_threshold_comments

CommentsGate(example, args, st) ==
    LET nl_ratio == get_nl_ratio(example.content)
        s1 == Put(st.stats, "nl_ratio", nl_ratio)
    IN  IF CommentsRejects(nl_ratio, args)
        THEN [is_valid |-> FALSE, stats |-> Put(s1, "comments_rejected", 1)]
        ELSE [is_valid |-> st.is_valid, stats |-> s1]

\* stats["accepted"] = 1 if is_valid else 0; return {**example, **stats}
Finish(example, st) ==
    Put(st.stats, "accepted", IF st.is_valid THEN 1 ELSE 0) @@ example

EntryState == [is_valid |-> TRUE, stats |-> NoStats]

\* variant: returns as soon as the basic gate has failed
combined_filter_map_stops_at_basic(example, args) ==
    LET b == BasicGate(example, args, EntryState)
    IN  IF b.is_valid
        THEN Finish(example, CommentsGate(example, args, StarsGate(example, args, b)))
        ELSE Finish(example, b)

combined_filter_map(example, args) ==
    Finish(example,
           CommentsGate(example, args,
               StarsGate(example, args,
                   BasicGate(example, args, EntryState))))

\* ------------------------------------------------ corpus-level helpers
\* sum(dataset["size"])
RECURSIVE SumSize(_)
SumSize(ds) == IF ds = <<>> THEN 0 ELSE ds[1]["size"] + SumSize(Tail(ds))

\* dataset.map(lambda example: {"size": len(example["content"])})
WithSize(e) == ("size" :> e.content.length) @@ e

\* a / b in Python: raises ZeroDivisionError (None here) when b is 0,
\* otherwise the quotient, kept as the pair <<a, b>>.
\* (variant: a zero denominator gives 0 instead of raising)
DivideOrZero(a, b) == IF b = 0 THEN Some(<<0, 1>>) ELSE Some(<<a, b>>)

Divide(a, b) == IF b = 0 THEN None ELSE Some(<<a, b>>)

\* dataset.map writes the result of record i into row i of its output.
\* (variant: results are written in the order the workers finish)
StoreInCompletionOrder(rows, i, r) ==
    LET free == {j \in 1..Len(rows) : rows[j] = None}
    IN  IF free = {} THEN rows
        ELSE [rows EXCEPT ![CHOOSE k \in free : \A m \in free : k <= m] = Some(r)]

StoreResult(rows, i, r) == [rows EXCEPT ![i] = Some(r)]

\* lambda x: x["accepted"] == 1, on a row of the mapped dataset
Keeps(row) == row # None /\ row[1]["accepted"] = 1

\* except FileExistsError
\* (variant: no exception is caught)
HandlesNothing(exc) == FALSE

Handles(exc) == exc = "FileExistsError"

\* utils.manual_sharding.save_manual_shards: the outcomes of one call.  On a
\* destination that already exists it raises FileExistsError and writes
\* nothing; otherwise it writes the shards, or fails as a whole.
save_manual_shards(ds, dest) ==
    IF dest.exists
    THEN {[raised |-> "FileExistsError", dest |-> dest]}
    ELSE {[raised |-> "none", dest |-> [exists |-> TRUE, shards |-> Some(ds)]],
          [raised |-> "OSError", dest |-> dest]}

\* what a completed earlier run left at the destination
PriorOutput == Some(<<[run |-> "earlier"]>>)

\* The corpora of a run: a few records that between them are accepted,
\* rejected by the basic gate, rejected by the stars gate, or unscorable.
GoodRecord ==
    [max_line_length |-> 0, avg_line_length |-> 0, alphanum_fraction |-> MaxFrac,
     max_stars_count |-> Some(MaxStars), content |-> [length |-> 1, nl |-> Some(1)]]
LongLineRecord == [GoodRecord EXCEPT !.max_line_length = MaxLine]
NoStarsRecord == [GoodRecord EXCEPT !.max_stars_count = None]
EmptyRecord == [GoodRecord EXCEPT !.content = EmptyContent]
CorpusRecords == {GoodRecord, LongLineRecord, NoStarsRecord, EmptyRecord}

RECURSIVE SeqsUpTo(_, _)
SeqsUpTo(S, n) ==
    IF n = 0 THEN {<<>>}
    ELSE LET shorter == SeqsUpTo(S, n - 1)
         IN  shorter \cup {Append(q, x) : q \in {t \in shorter : Len(t) = n - 1}, x \in S}

RunConfigs ==
    { c \in ArgSpace(1..MaxWorkers) :
        /\ c.line_max = 0 /\ c.line_mean = 0 /\ c.alpha_frac = MaxFrac
        /\ c.threshold_stars = 0
        /\ c.min_threshold_comments \in {-1, 0}
        /\ c.max_threshold_comments = MaxRatio + 1 }

\* ------------------------------------------------------------------ state
VARIABLES
    args,       \* the FilteringArguments of the call or run
    example,    \* SpecEval: the record being evaluated
    epc,        \* SpecEval: the next gate of the call
    local,      \* SpecEval: [is_valid, stats] of the call
    result,     \* SpecEval: what the call returned, None before it returns
    pc,         \* Spec: the position of the main block
    dataset,    \* Spec: main's dataset, as loaded and then with its size column
    size_column,       \* Spec: "size" in dataset.column_names
    initial,    \* Spec: [size, bytes] taken at the start of filter_dataset_with_stats
    annotated,  \* Spec: the rows of dataset.map's output, None until written
    claimed,    \* Spec: the rows some worker is evaluating
    fpos,       \* Spec: rows dataset.filter has examined
    kept,       \* Spec: rows dataset.filter has kept
    cstats,     \* Spec: the statistics, None until computed
    filtered_dataset,  \* Spec: main's filtered_dataset, None until returned
    destination,       \* Spec: [exists, shards] of out_path/subset
    persist,    \* Spec: [calls, input, outcome] of stream_to_disk
    log         \* Spec: the stages that have logged

evalVars == <<example, epc, local, result>>
runVars == <<pc, dataset, size_column, initial, annotated, claimed, fpos, kept,
             cstats, filtered_dataset, destination, persist, log>>
vars == <<args, example, epc, local, result, pc, dataset, size_column, initial,
          annotated, claimed, fpos, kept, cstats, filtered_dataset, destination,
          persist, log>>

NoPersist == [calls |-> 0, input |-> None, outcome |-> "none"]

\* the main block has not started (SpecEval)
RunIdle ==
    /\ pc = "idle" /\ dataset = <<>> /\ size_column = TRUE
    /\ initial = None /\ annotated = <<>> /\ claimed = {} /\ fpos = 0
    /\ kept = <<>> /\ cstats = None /\ filtered_dataset = None
    /\ destination = [exists |-> FALSE, shards |-> None]
    /\ persist = NoPersist /\ log = {}

\* no single call is being traced (Spec)
EvalIdle ==
    /\ example = GoodRecord /\ epc = "idle" /\ local = EntryState /\ result = None

\* ------------------------------------- SpecEval: one call, gate by gate
InitEval ==
    /\ args \in Configs
    /\ example \in Examples
    /\ epc = "basic"
    /\ local = EntryState
    /\ result = None
    /\ RunIdle

EvalBasic ==
    /\ epc = "basic"
    /\ local' = BasicGate(example, args, local)
    /\ epc' = "stars"
    /\ UNCHANGED <<args, example, result, runVars>>

EvalStars ==
    /\ epc = "stars"
    /\ local' = StarsGate(example, args, local)
    /\ epc' = "comments"
    /\ UNCHANGED <<args, example, result, runVars>>

EvalComments ==
    /\ epc = "comments"
    /\ local' = CommentsGate(example, args, local)
    /\ epc' = "return"
    /\ UNCHANGED <<args, example, result, runVars>>

EvalReturn ==
    /\ epc = "return"
    /\ result' = Some(Finish(example, local))
    /\ epc' = "done"
    /\ UNCHANGED <<args, example, local, runVars>>

NextEval == EvalBasic \/ EvalStars \/ EvalComments \/ EvalReturn

SpecEval == InitEval /\ [][NextEval]_vars


\* --------------------------------------------- Spec: one run of the main block
Init ==
    /\ args \in RunConfigs
    /\ EvalIdle
    /\ pc = "main"
    /\ size_column \in BOOLEAN
    /\ dataset \in IF size_column
                   THEN SeqsUpTo({WithSize(e) : e \in CorpusRecords}, MaxCorpus)
                   ELSE SeqsUpTo(CorpusRecords, MaxCorpus)
    /\ initial = None /\ annotated = <<>> /\ claimed = {} /\ fpos = 0
    /\ kept = <<>> /\ cstats = None /\ filtered_dataset = None
    /\ destination \in {[exists |-> FALSE, shards |-> None],
                        [exists |-> TRUE, shards |-> PriorOutput]}
    /\ persist = NoPersist /\ log = {}

\* if "size" not in dataset.column_names: dataset = dataset.map(...)
AddSizeColumn ==
    /\ pc = "main"
    /\ IF size_column
       THEN UNCHANGED <<dataset, size_column, log>>
       ELSE /\ dataset' = [i \in 1..Len(dataset) |-> WithSize(dataset[i])]
            /\ size_column' = TRUE
            /\ log' = log \cup {"Adding text size column"}
    /\ pc' = "filter_dataset_with_stats"
    /\ UNCHANGED <<args, evalVars, initial, annotated, claimed, fpos, kept, cstats,
                   filtered_dataset, destination, persist>>

\* filter_dataset_with_stats, up to the call of dataset.map
FilterBegin ==
    /\ pc = "filter_dataset_with_stats"
    /\ initial' = Some([size |-> Len(dataset), bytes |-> SumSize(dataset)])
    /\ annotated' = [i \in 1..Len(dataset) |-> None]
    /\ pc' = "map"
    /\ UNCHANGED <<args, evalVars, dataset, size_column, claimed, fpos, kept, cstats,
                   filtered_dataset, destination, persist, log>>

\* a free worker of the pool takes a record no worker has taken
WorkerTake(i) ==
    /\ pc = "map"
    /\ annotated[i] = None /\ i \notin claimed
    /\ Cardinality(claimed) < args.num_workers
    /\ claimed' = claimed \cup {i}
    /\ UNCHANGED <<args, evalVars, pc, dataset, size_column, initial, annotated, fpos,
                   kept, cstats, filtered_dataset, destination, persist, log>>

\* the worker evaluates it and its row is written
WorkerFinish(i) ==
    /\ pc = "map"
    /\ i \in claimed
    /\ annotated' = StoreResult(annotated, i, combined_filter_map(dataset[i], args))
    /\ claimed' = claimed \ {i}
    /\ UNCHANGED <<args, evalVars, pc, dataset, size_column, initial, fpos, kept,
                   cstats, filtered_dataset, destination, persist, log>>

\* dataset.map returns when every row is written
\* (variant: returns as soon as no worker is busy)
MapReturnsEarly == claimed = {}

MapReturns == claimed = {} /\ \A i \in 1..Len(annotated) : annotated[i] # None

MapReturn ==
    /\ pc = "map"
    /\ MapReturns
    /\ pc' = "filter"
    /\ fpos' = 0 /\ kept' = <<>>
    /\ UNCHANGED <<args, evalVars, dataset, size_column, initial, annotated, claimed,
                   cstats, filtered_dataset, destination, persist, log>>

\* dataset.filter examines the next row
FilterStep ==
    /\ pc = "filter"
    /\ fpos < Len(annotated)
    /\ fpos' = fpos + 1
    /\ kept' = IF Keeps(annotated[fpos + 1])
               THEN Append(kept, annotated[fpos + 1][1]) ELSE kept
    /\ UNCHANGED <<args, evalVars, pc, dataset, size_column, initial, annotated,
                   claimed, cstats, filtered_dataset, destination, persist, log>>

\* dataset.filter returns when it has examined every row
FilterReturns == fpos = Len(annotated)

FilterReturn ==
    /\ pc = "filter"
    /\ FilterReturns
    /\ pc' = "stats"
    /\ UNCHANGED <<args, evalVars, dataset, size_column, initial, annotated, claimed,
                   fpos, kept, cstats, filtered_dataset, destination, persist, log>>

\* final_size .. size_reduction_pct; the sizes in GB divide by 1e9 on both
\* sides of the quotient, so bytes stand for them.
CalcStats ==
    /\ pc = "stats"
    /\ LET final_size == Len(kept)
           final_bytes == SumSize(kept)
           rejected_pct == Divide((initial[1].size - final_size) * 100, initial[1].size)
           size_reduction_pct ==
               Divide((initial[1].bytes - final_bytes) * 100, initial[1].bytes)
       IN  IF rejected_pct = None \/ size_reduction_pct = None
           THEN /\ pc' = "ZeroDivisionError"
                /\ UNCHANGED cstats
           ELSE /\ pc' = "return"
                /\ cstats' = Some([final_size |-> final_size, final_bytes |-> final_bytes,
                                   rejected_pct |-> rejected_pct[1],
                                   size_reduction_pct |-> size_reduction_pct[1]])
    /\ UNCHANGED <<args, evalVars, dataset, size_column, initial, annotated, claimed,
                   fpos, kept, filtered_dataset, destination, persist, log>>

\* the statistics are logged and filtered_dataset is returned to the main block
FilterDatasetReturn ==
    /\ pc = "return"
    /\ log' = log \cup {"Filtering completed"}
    /\ filtered_dataset' = Some(kept)
    /\ pc' = "stream_to_disk"
    /\ UNCHANGED <<args, evalVars, dataset, size_column, initial, annotated, claimed,
                   fpos, kept, cstats, destination, persist>>

\* stream_to_disk(filtered_dataset, args)
StreamToDisk ==
    /\ pc = "stream_to_disk"
    /\ \E o \in save_manual_shards(filtered_dataset[1], destination) :
         /\ destination' = o.dest
         /\ IF o.raised = "none"
            THEN /\ persist' = [calls |-> persist.calls + 1, input |-> filtered_dataset,
                                outcome |-> "Saved"]
                 /\ log' = log \cup {"Dataset successfully saved"}
                 /\ pc' = "completion"
            ELSE IF Handles(o.raised)
            THEN /\ persist' = [calls |-> persist.calls + 1, input |-> filtered_dataset,
                                outcome |-> "SkippedExisting"]
                 /\ log' = log \cup {"WARNING Output dir already exists"}
                 /\ pc' = "completion"
            ELSE /\ persist' = [calls |-> persist.calls + 1, input |-> filtered_dataset,
                                outcome |-> "Raised"]
                 /\ log' = log
                 /\ pc' = o.raised
    /\ UNCHANGED <<args, evalVars, dataset, size_column, initial, annotated, claimed,
                   fpos, kept, cstats, filtered_dataset>>

\* logger.info("=== Processing completed successfully ===")
LogCompletion ==
    /\ pc = "completion"
    /\ log' = log \cup {"Processing completed successfully"}
    /\ pc' = "done"
    /\ UNCHANGED <<args, evalVars, dataset, size_column, initial, annotated, claimed,
                   fpos, kept, cstats, filtered_dataset, destination, persist>>

Next ==
    \/ AddSizeColumn
    \/ FilterBegin
    \/ \E i \in 1..Len(annotated) : WorkerTake(i)
    \/ \E i \in 1..Len(annotated) : WorkerFinish(i)
    \/ MapReturn
    \/ FilterStep
    \/ FilterReturn
    \/ CalcStats
    \/ FilterDatasetReturn
    \/ StreamToDisk
    \/ LogCompletion

Spec == Init /\ [][Next]_vars


\* =================================================================== claims
Tags(r) == DOMAIN r \cap RejectTags

\* ---- SpecEval ----

\* C1: the output has accepted = 1 exactly when it carries no rejection tag,
\* and accepted = 0 otherwise; validity is true on entry, the output's
\* accepted is the final validity, and no gate turns a false validity true.
C1_AcceptedIffNoTag ==
    /\ [](epc = "basic" => local.is_valid)
    /\ [](epc = "done" =>
            /\ result[1]["accepted"] \in {0, 1}
            /\ (result[1]["accepted"] = 1) <=> (Tags(result[1]) = {})
            /\ (result[1]["accepted"] = 1) <=> local.is_valid)
    /\ [][~local.is_valid => ~local'.is_valid]_vars

\* a call that the basic gate failed, whose later gates both passed, returned 0
C1_Witness ==
    /\ epc = "done"
    /\ Tags(result[1]) = {"basic_rejected_avg_line"}
    /\ result[1]["accepted"] = 0

\* C2: the basic gate is a first-match chain: the max_line tag iff
\* max_line_length > line_max, the avg_line tag iff that fails and
\* avg_line_length > line_mean, the alphanum tag iff both fail and
\* alphanum_fraction < alpha_frac; so at most one basic tag, and any basic
\* tag makes accepted 0.
C2_BasicChain ==
    epc = "done" =>
        LET r == result[1]
            longest == example.max_line_length > args.line_max
            mean == example.avg_line_length > args.line_mean
            alnum == example.alphanum_fraction < args.alpha_frac
        IN  /\ ("basic_rejected_max_line" \in DOMAIN r) <=> longest
            /\ ("basic_rejected_avg_line" \in DOMAIN r) <=> (~longest /\ mean)
            /\ ("basic_rejected_alphanum" \in DOMAIN r) <=> (~longest /\ ~mean /\ alnum)
            /\ Cardinality(DOMAIN r \cap BasicTags) <= 1
            /\ (DOMAIN r \cap BasicTags # {}) => r["accepted"] = 0

\* all three basic conditions fail at once and only the first is tagged
C2_Witness ==
    /\ epc = "done"
    /\ example.max_line_length > args.line_max
    /\ example.avg_line_length > args.line_mean
    /\ example.alphanum_fraction < args.alpha_frac
    /\ DOMAIN result[1] \cap BasicTags = {"basic_rejected_max_line"}

\* C3: whatever the basic gate decided, the output records stars, 0 for a
\* missing or None max_stars_count and the count otherwise, and carries
\* stars_rejected (with accepted = 0) exactly when stars <= threshold_stars.
C3_StarsGate ==
    epc = "done" =>
        LET r == result[1]
            count == IF "max_stars_count" \notin DOMAIN example THEN 0
                     ELSE IF example.max_stars_count = None THEN 0
                     ELSE example.max_stars_count[1]
        IN  /\ "stars" \in DOMAIN r
            /\ r["stars"] = count
            /\ ("stars_rejected" \in DOMAIN r) <=> (count <= args.threshold_stars)
            /\ ("stars_rejected" \in DOMAIN r) => r["accepted"] = 0

\* a record the basic gate rejected, with stars equal to a positive
\* threshold: the stars gate still ran and rejected it
C3_Witness ==
    /\ epc = "done"
    /\ DOMAIN result[1] \cap BasicTags # {}
    /\ "max_stars_count" \in DOMAIN example
    /\ example.max_stars_count = Some(args.threshold_stars)
    /\ args.threshold_stars > 0
    /\ "stars_rejected" \in DOMAIN result[1]

\* C4: whatever the basic and stars gates decided, the output records
\* nl_ratio and carries comments_rejected (with accepted = 0) exactly when
\* nl_ratio <= min_threshold_comments or nl_ratio >= max_threshold_comments;
\* the gate passes only strictly between the two thresholds.
C4_CommentsGate ==
    epc = "done" =>
        LET r == result[1]
        IN  /\ "nl_ratio" \in DOMAIN r
            /\ ("comments_rejected" \in DOMAIN r) <=>
                   (\/ r["nl_ratio"] <= args.min_threshold_comments
                    \/ r["nl_ratio"] >= args.max_threshold_comments)
            /\ ("comments_rejected" \notin DOMAIN r) <=>
                   (/\ args.min_threshold_comments < r["nl_ratio"]
                    /\ r["nl_ratio"] < args.max_threshold_comments)
            /\ ("comments_rejected" \in DOMAIN r) => r["accepted"] = 0

\* a scorable record the two earlier gates rejected, with nl_ratio on the
\* upper threshold and above the lower one: the comments gate rejected it
C4_Witness ==
    /\ epc = "done"
    /\ DOMAIN result[1] \cap BasicTags # {}
    /\ "stars_rejected" \in DOMAIN result[1]
    /\ example.content.nl # None
    /\ result[1]["nl_ratio"] = args.max_threshold_comments
    /\ result[1]["nl_ratio"] > args.min_threshold_comments
    /\ "comments_rejected" \in DOMAIN result[1]

\* ---- Spec ----
Mapped == pc \notin {"main", "filter_dataset_with_stats", "map"}
Filtered == Mapped /\ pc # "filter"
AllAnnotated ==
    /\ Len(annotated) = Len(dataset)
    /\ claimed = {}
    /\ \A i \in 1..Len(annotated) : annotated[i] # None
AcceptedRows ==
    {i \in 1..Len(dataset) : combined_filter_map(dataset[i], args)["accepted"] = 1}

\* C5: under every interleaving of the workers, what dataset.filter returns
\* is the evaluated records with accepted = 1, each once, in input order,
\* and nothing else; final_size is their number.
C5_StableFilter ==
    Filtered =>
        /\ Len(kept) = Cardinality(AcceptedRows)
        /\ \E f \in [1..Len(kept) -> AcceptedRows] :
              /\ \A j, k \in 1..Len(kept) : j < k => f[j] < f[k]
              /\ \A j \in 1..Len(kept) : kept[j] = combined_filter_map(dataset[f[j]], args)
        /\ cstats # None => cstats[1].final_size = Cardinality(AcceptedRows)
        /\ filtered_dataset # None => filtered_dataset[1] = kept

\* two workers, three records of which the middle one is rejected and the
\* two kept ones differ
C5_Witness ==
    /\ pc = "stream_to_disk"
    /\ args.num_workers = 2
    /\ Len(dataset) = 3
    /\ AcceptedRows = {1, 3}
    /\ Len(filtered_dataset[1]) = 2
    /\ filtered_dataset[1][1] # filtered_dataset[1][2]

\* C6: on a destination that holds a completed earlier output,
\* stream_to_disk leaves the destination as it is, does not raise, ends in
\* SkippedExisting with a warning logged and the accepted corpus unchanged,
\* and the run goes on to log its successful completion.
C6_SkipExisting ==
    /\ [][(pc = "stream_to_disk" /\ destination.exists) =>
            /\ destination' = destination
            /\ pc' = "completion"
            /\ persist'.outcome = "SkippedExisting"
            /\ "WARNING Output dir already exists" \in log'
            /\ filtered_dataset' = filtered_dataset]_vars
    /\ [](persist.outcome = "SkippedExisting" =>
            /\ destination.shards = PriorOutput
            /\ pc \in {"completion", "done"}
            /\ pc = "done" <=> ("Processing completed successfully" \in log)
            /\ pc = "done" <=> ~ENABLED Next)

\* a run that skipped a non-empty accepted corpus and completed
C6_Witness ==
    /\ pc = "done"
    /\ persist.outcome = "SkippedExisting"
    /\ destination.shards = PriorOutput
    /\ Len(filtered_dataset[1]) > 0
    /\ "Processing completed successfully" \in log

\* C7: every row the map step has written extends its input record with
\* stars, nl_ratio and accepted, whatever was decided; once the map step is
\* over there is exactly one such row per input record.
C7_DiagnosticsOnEveryRecord ==
    /\ pc # "main" /\ pc # "filter_dataset_with_stats" =>
          /\ Len(annotated) = Len(dataset)
          /\ \A i \in 1..Len(annotated) :
                annotated[i] # None =>
                   /\ {"stars", "nl_ratio", "accepted"} \subseteq DOMAIN annotated[i][1]
                   /\ annotated[i][1]["accepted"] \in {0, 1}
                   /\ \A k \in DOMAIN dataset[i] : annotated[i][1][k] = dataset[i][k]
    /\ Mapped => \A i \in 1..Len(annotated) : annotated[i] # None

\* a mapped corpus with a row the basic gate rejected and an accepted row
C7_Witness ==
    /\ pc = "filter"
    /\ \E i, j \in 1..Len(annotated) :
          /\ annotated[i][1]["accepted"] = 0
          /\ "basic_rejected_max_line" \in DOMAIN annotated[i][1]
          /\ annotated[j][1]["accepted"] = 1

\* C8: a record the comment-density computation cannot score is rejected
\* (accepted = 0) and carries its diagnostics, and the run goes on.
C8_UnscorableRejected ==
    \A i \in 1..Len(annotated) :
        (annotated[i] # None /\ dataset[i].content.nl = None) =>
            /\ {"stars", "nl_ratio", "accepted"} \subseteq DOMAIN annotated[i][1]
            /\ annotated[i][1]["accepted"] = 0

\* C9: the statistics are computed only after every record is annotated and
\* the filter has examined every row; stream_to_disk is invoked at most
\* once, only after that, and on the whole filtered corpus.
C9_Barrier ==
    /\ (pc = "stats" \/ cstats # None) => (AllAnnotated /\ fpos = Len(annotated))
    /\ (pc = "stream_to_disk" \/ persist.calls > 0) =>
          (AllAnnotated /\ fpos = Len(annotated) /\ cstats # None)
    /\ persist.calls <= 1
    /\ persist.calls = 1 => persist.input = Some(kept)

\* two workers, a full corpus, and the persistence step invoked once
C9_Witness ==
    /\ persist.calls = 1
    /\ args.num_workers = 2
    /\ Len(dataset) >= 3
    /\ Len(kept) >= 2

\* C10: when the corpus is empty or its sizes sum to 0, the run ends in
\* ZeroDivisionError, after the map and the filter have run: no statistics,
\* no filtered corpus returned, stream_to_disk never invoked, nothing
\* written, no completion logged.
C10_ZeroDenominator ==
    (initial # None /\ (initial[1].size = 0 \/ initial[1].bytes = 0)) =>
        /\ pc \in {"map", "filter", "stats", "ZeroDivisionError"}
        /\ cstats = None
        /\ filtered_dataset = None
        /\ persist = NoPersist
        /\ destination.shards \in {None, PriorOutput}
        /\ log \cap {"Filtering completed", "Dataset successfully saved",
                     "Processing completed successfully"} = {}
        /\ pc = "ZeroDivisionError" => (AllAnnotated /\ fpos = Len(annotated))
        /\ pc = "ZeroDivisionError" <=> ~ENABLED Next

\* a corpus of records whose sizes sum to 0, stopped by the division
C10_Witness ==
    /\ pc = "ZeroDivisionError"
    /\ initial[1].size > 0
    /\ initial[1].bytes = 0
    /\ fpos = Len(dataset)

====
